---- MODULE Spec2Model ----
(***************************************************************************)
(* Model of awscli/autocomplete/completer.py: the AutoCompleter dispatcher *)
(* and the ModelIndexCompleter strategy.                                   *)
(*                                                                         *)
(* Python strings are sequences of one-character strings, so that          *)
(* str.startswith, slicing, len and '--%s' formatting are computed.        *)
(* A Python value that may be None is a record [isNone, items] (for a      *)
(* list) or [isNone, str] (for a string).                                  *)
(***************************************************************************)
EXTENDS Integers, Sequences, FiniteSets, TLC

VARIABLES
    completers,   \* AutoCompleter._completers: sequence of completer kinds
    index,        \* ModelIndexCompleter._index: the catalog queried
    parsed,       \* the ParsedResult of the request being served
    parseCalls,   \* number of parser.parse calls made for this request
    pc,           \* position of autocomplete: idle, loop, returned
    i,            \* position of the for loop in self._completers
    calls,        \* log of completer.complete calls made for this request
    ret,          \* value returned by autocomplete
    workload,     \* which parsed lines the parser hands over in this run
    probe,        \* a ParsedResult whose answers are remembered
    probeAuto,    \* first value autocomplete returned for the probe
    probeModel    \* first value ModelIndexCompleter.complete returned for it

vars == <<completers, index, parsed, parseCalls, pc, i, calls, ret,
          workload, probe, probeAuto, probeModel>>

-----------------------------------------------------------------------------
(* Bounds of the model.                                                    *)

MaxCompleters == 2
MaxFragLen == 5

-----------------------------------------------------------------------------
(* Python values.                                                          *)

None == [isNone |-> TRUE, items |-> <<>>]
List(s) == [isNone |-> FALSE, items |-> s]

NoneStr == [isNone |-> TRUE, str |-> <<>>]
Str(s) == [isNone |-> FALSE, str |-> s]

\* str.startswith(prefix)
startswith(s, prefix) ==
    /\ Len(prefix) <= Len(s)
    /\ SubSeq(s, 1, Len(prefix)) = prefix

\* s[2:]
SliceFrom2(s) == IF Len(s) <= 2 THEN <<>> ELSE SubSeq(s, 3, Len(s))

\* '--%s' % arg_name
DashDash(arg_name) == <<"-", "-">> \o arg_name

\* the "for name in names if name.startswith(fragment)" of a comprehension
StartingWith(names, fragment) ==
    SelectSeq(names, LAMBDA name : startswith(name, fragment))

CompletionResult(result, starting_index) ==
    [result |-> result, starting_index |-> starting_index]

-----------------------------------------------------------------------------
(* Names used by the catalog and the requests.                             *)

aws == <<"a", "w", "s">>
ec2 == <<"e", "c", "2">>
describe_instances ==
    <<"d", "e", "s", "c", "r", "i", "b", "e", "-",
      "i", "n", "s", "t", "a", "n", "c", "e", "s">>
s3 == <<"s", "3">>
S3 == <<"S", "3">>
s3api == <<"s", "3", "a", "p", "i">>
sts == <<"s", "t", "s">>
stop == <<"s", "t", "o", "p">>
region == <<"r", "e", "g", "i", "o", "n">>
regex == <<"r", "e", "g", "e", "x">>
output == <<"o", "u", "t", "p", "u", "t">>

\* The catalogs.  commands maps a full lineage to the child command names,
\* args maps <<lineage, command_name>> to the option names, both in the
\* order the index yields them.
IndexA ==
    [commands |->
        (<<aws>> :> <<s3, s3api, sts>>) @@
        (<<ec2, describe_instances>> :> <<stop, sts>>) @@
        (<<ec2>> :> <<sts, s3>>) @@
        (<<aws, aws>> :> <<S3, s3>>) @@
        (<<>> :> <<aws>>),
     args |->
        (<< <<>>, aws >> :> <<region, output>>) @@
        (<< <<ec2>>, describe_instances >> :> <<region, regex>>) @@
        (<< <<>>, ec2 >> :> <<output, regex>>) @@
        (<< <<aws>>, aws >> :> <<region>>)]

IndexB ==
    [commands |->
        (<<aws>> :> <<sts, s3api, S3, s3>>) @@
        (<<ec2, describe_instances>> :> <<>>) @@
        (<<ec2>> :> <<stop>>) @@
        (<<>> :> <<ec2, aws>>),
     args |->
        (<< <<>>, aws >> :> <<output, regex, region>>) @@
        (<< <<ec2>>, describe_instances >> :> <<>>) @@
        (<< <<aws>>, aws >> :> <<output, region>>) @@
        (<< <<>>, ec2 >> :> <<region, region>>)]

Indexes == {IndexA, IndexB}

\* index.command_names(lineage)
command_names(idx, lineage) ==
    IF lineage \in DOMAIN idx.commands THEN idx.commands[lineage] ELSE <<>>

\* index.arg_names(lineage, command_name)
arg_names(idx, lineage, command_name) ==
    IF <<lineage, command_name>> \in DOMAIN idx.args
    THEN idx.args[<<lineage, command_name>>]
    ELSE <<>>

-----------------------------------------------------------------------------
(* The parsed lines the parser can hand over.                              *)

Scopes ==
    { <<(<<>>), aws>>, <<(<<ec2>>), describe_instances>>,
      <<(<<>>), ec2>>, <<(<<aws>>), aws>> }

Tokens == { DashDash(region), DashDash(regex), DashDash(output),
            <<"s", "3", "a">>, sts, S3, <<"-", "-", "x">> }

Fragments ==
    { SubSeq(t, 1, IF n <= Len(t) THEN n ELSE Len(t)) :
      t \in Tokens, n \in 0..MaxFragLen }

OptFragments == {NoneStr} \cup { Str(f) : f \in Fragments }

UnparsedItems == { <<>>, <<"x">> }

ParsedLines ==
    { [lineage |-> s[1], current_command |-> s[2],
       last_fragment |-> f, unparsed_items |-> u] :
      s \in Scopes, f \in OptFragments, u \in UnparsedItems }

\* The lines of a run that repeats requests: one line per branch of
\* ModelIndexCompleter.complete, in the global scope and outside it.
RepeatedLines ==
    { p \in ParsedLines :
        /\ p.last_fragment \in {NoneStr, Str(<<"-", "-", "r", "e">>), Str(<<"s">>)}
        /\ p.current_command \in {aws, describe_instances} }

Lines(w) == IF w = "repeated" THEN RepeatedLines ELSE ParsedLines

-----------------------------------------------------------------------------
(* ModelIndexCompleter.  Every method returns the value it returns (ret)   *)
(* and the parsed object as the call leaves it (parsed).                   *)

\* the scope test written "parsed.lineage is []", which no list satisfies
is_in_global_scope_identity(p) == FALSE

\* the scope test with "or" for "and"
is_in_global_scope_or(p) ==
    \/ p.lineage = <<>>
    \/ p.current_command = aws

\* is_in_global_scope of _inject_global_params_if_needed
is_in_global_scope(p) ==
    /\ p.lineage = <<>>
    /\ p.current_command = aws

\* the injection with the offset taken from the stripped fragment
_inject_global_params_if_needed_bare_offset(idx, p, results, fragment) ==
    IF ~is_in_global_scope(p)
    THEN LET offset == 0 - Len(fragment)
             global_params == arg_names(idx, <<>>, aws)
             global_param_completions ==
                 LET kept == StartingWith(global_params, fragment)
                 IN [k \in 1..Len(kept) |->
                        CompletionResult(DashDash(kept[k]), offset)]
         IN results \o global_param_completions
    ELSE results

\* _inject_global_params_if_needed(parsed, results, fragment): the results
\* list after the call
_inject_global_params_if_needed(idx, p, results, fragment) ==
    IF ~is_in_global_scope(p)
    THEN LET offset == 0 - Len(p.last_fragment.str)
             global_params == arg_names(idx, <<>>, aws)
             global_param_completions ==
                 LET kept == StartingWith(global_params, fragment)
                 IN [k \in 1..Len(kept) |->
                        CompletionResult(DashDash(kept[k]), offset)]
         IN results \o global_param_completions
    ELSE results

\* command completion that asks the index for the children of the parent
_complete_command_parent_lineage(idx, p) ==
    LET lineage == p.lineage
        offset == 0 - Len(p.last_fragment.str)
        result ==
            LET kept == StartingWith(command_names(idx, lineage),
                                     p.last_fragment.str)
            IN [k \in 1..Len(kept) |-> CompletionResult(kept[k], offset)]
    IN [ret |-> List(result), parsed |-> p]

\* command completion that appends current_command to parsed.lineage in place
_complete_command_appends(idx, p) ==
    LET lineage == p.lineage \o <<p.current_command>>
        offset == 0 - Len(p.last_fragment.str)
        result ==
            LET kept == StartingWith(command_names(idx, lineage),
                                     p.last_fragment.str)
            IN [k \in 1..Len(kept) |-> CompletionResult(kept[k], offset)]
    IN [ret |-> List(result), parsed |-> [p EXCEPT !.lineage = lineage]]

_complete_command(idx, p) ==
    LET lineage == p.lineage \o <<p.current_command>>
        offset == 0 - Len(p.last_fragment.str)
        result ==
            LET kept == StartingWith(command_names(idx, lineage),
                                     p.last_fragment.str)
            IN [k \in 1..Len(kept) |-> CompletionResult(kept[k], offset)]
    IN [ret |-> List(result), parsed |-> p]

\* option completion that matches against the fragment with its marker
_complete_options_unstripped(idx, p) ==
    LET offset == 0 - Len(p.last_fragment.str)
        fragment == p.last_fragment.str
        names == arg_names(idx, p.lineage, p.current_command)
        results ==
            LET kept == StartingWith(names, fragment)
            IN [k \in 1..Len(kept) |->
                   CompletionResult(DashDash(kept[k]), offset)]
    IN [ret |-> List(_inject_global_params_if_needed(idx, p, results, fragment)),
        parsed |-> p]

_complete_options(idx, p) ==
    LET offset == 0 - Len(p.last_fragment.str)
        fragment == SliceFrom2(p.last_fragment.str)
        names == arg_names(idx, p.lineage, p.current_command)
        results ==
            LET kept == StartingWith(names, fragment)
            IN [k \in 1..Len(kept) |->
                   CompletionResult(DashDash(kept[k]), offset)]
    IN [ret |-> List(_inject_global_params_if_needed(idx, p, results, fragment)),
        parsed |-> p]

\* the guard with "and" for "or"
MustAbstain_and(p) ==
    /\ p.unparsed_items # <<>>
    /\ p.last_fragment.isNone

\* the guard written "not parsed.last_fragment", which the empty string meets
MustAbstain_truthy(p) ==
    \/ p.unparsed_items # <<>>
    \/ p.last_fragment.isNone
    \/ p.last_fragment.str = <<>>

\* the guard of ModelIndexCompleter.complete: a non-empty list is truthy
MustAbstain(p) ==
    \/ p.unparsed_items # <<>>
    \/ p.last_fragment.isNone

ModelIndexCompleter_complete(idx, p) ==
    IF MustAbstain(p)
    THEN [ret |-> None, parsed |-> p]
    ELSE IF startswith(p.last_fragment.str, <<"-", "-">>)
         THEN _complete_options(idx, p)
         ELSE _complete_command(idx, p)

-----------------------------------------------------------------------------------------------------------------------------------------------------
(* The completers an AutoCompleter can be built with.  Besides the         *)
(* ModelIndexCompleter: completers that follow the contract stated by      *)
(* BaseCompleter.complete by always abstaining, by answering the empty     *)
(* list, by answering one result.                                          *)

Kinds == {"ModelIndexCompleter", "Abstainer", "EmptyAnswerer", "FixedAnswerer"}

FixedAnswer == <<CompletionResult(<<"f", "i", "x">>, 0)>>

\* completer.complete(parsed)
complete(kind, idx, p) ==
    CASE kind = "ModelIndexCompleter" -> ModelIndexCompleter_complete(idx, p)
      [] kind = "Abstainer" -> [ret |-> None, parsed |-> p]
      [] kind = "EmptyAnswerer" -> [ret |-> List(<<>>), parsed |-> p]
      [] kind = "FixedAnswerer" -> [ret |-> List(FixedAnswer), parsed |-> p]

CompleterLists ==
    UNION { [1..n -> Kinds] : n \in 0..MaxCompleters }

-----------------------------------------------------------------------------
(* AutoCompleter.autocomplete, one step per loop iteration.                *)

\* the test written "if result", which the empty list fails
IsAnswer_truthy(result) == ~result.isNone /\ result.items # <<>>

\* "result is not None"
IsAnswer(result) == ~result.isNone

\* falling off the end of autocomplete without a return value
ExhaustedResult_none == None

\* the value of "return []" after the loop
ExhaustedResult == List(<<>>)

NoProbe == [lineage |-> <<>>]
NotSeen == [seen |-> FALSE, again |-> FALSE, ret |-> None]

\* the first answer to the probe is kept; again tells that it was asked twice
Remember(memo, r) ==
    IF memo.seen
    THEN [memo EXCEPT !.again = TRUE]
    ELSE [seen |-> TRUE, again |-> FALSE, ret |-> r]

\* what is remembered once a call of ModelIndexCompleter.complete ends
RememberModel(kind, p, r) ==
    IF kind = "ModelIndexCompleter" /\ p = probe
    THEN Remember(probeModel, r) ELSE probeModel

\* what is remembered once autocomplete returns r for the parsed line p
RememberAuto(p, r) ==
    IF p = probe THEN Remember(probeAuto, r) ELSE probeAuto

InitRequest ==
    /\ parsed = [lineage |-> <<>>, current_command |-> aws,
                 last_fragment |-> NoneStr, unparsed_items |-> <<>>]
    /\ parseCalls = 0
    /\ pc = "idle"
    /\ i = 1
    /\ calls = <<>>
    /\ ret = None
    /\ probeAuto = NotSeen
    /\ probeModel = NotSeen

\* AutoCompleter.__init__ and ModelIndexCompleter.__init__
Init ==
    /\ completers \in CompleterLists
    /\ index \in Indexes
    /\ workload = "all"
    /\ probe = NoProbe
    /\ InitRequest

\* the same, in a run that repeats requests and remembers the answers to one
InitRepeated ==
    /\ completers \in CompleterLists
    /\ index \in Indexes
    /\ workload = "repeated"
    /\ probe \in RepeatedLines
    /\ InitRequest

\* parsed = self._parser.parse(command_line, index)
Parse ==
    /\ pc \in {"idle", "returned"}
    /\ \E p \in Lines(workload) : parsed' = p
    /\ parseCalls' = 1
    /\ pc' = "loop"
    /\ i' = 1
    /\ calls' = <<>>
    /\ ret' = None
    /\ UNCHANGED <<completers, index, workload, probe, probeAuto, probeModel>>

\* result = completer.complete(parsed), for the k-th completer
Call(k) ==
    LET c == complete(completers[k], index, parsed)
    IN [who |-> k, kind |-> completers[k], arg |-> parsed,
        ret |-> c.ret, parsed |-> c.parsed]

\* an iteration whose completer answers: return result
ConsultAnswer ==
    /\ pc = "loop" /\ i <= Len(completers)
    /\ LET c == Call(i)
       IN /\ IsAnswer(c.ret)
          /\ calls' = Append(calls, c)
          /\ parsed' = c.parsed
          /\ ret' = c.ret
          /\ pc' = "returned"
          /\ probeModel' = RememberModel(c.kind, c.arg, c.ret)
          /\ probeAuto' = RememberAuto(c.arg, c.ret)
    /\ UNCHANGED <<completers, index, parseCalls, i, workload, probe>>

\* an iteration whose completer abstains: on to the next completer
ConsultAbstain ==
    /\ pc = "loop" /\ i <= Len(completers)
    /\ LET c == Call(i)
       IN /\ ~IsAnswer(c.ret)
          /\ calls' = Append(calls, c)
          /\ parsed' = c.parsed
          /\ i' = i + 1
          /\ probeModel' = RememberModel(c.kind, c.arg, c.ret)
    /\ UNCHANGED <<completers, index, parseCalls, pc, ret, workload, probe,
                   probeAuto>>

\* the loop is over and nobody answered: return []
Exhausted ==
    /\ pc = "loop" /\ i > Len(completers)
    /\ ret' = ExhaustedResult
    /\ pc' = "returned"
    /\ probeAuto' = RememberAuto(parsed, ExhaustedResult)
    /\ UNCHANGED <<completers, index, parsed, parseCalls, i, calls, workload,
                   probe, probeModel>>

Next ==
    \/ Parse
    \/ ConsultAnswer
    \/ ConsultAbstain
    \/ Exhausted

Spec == Init /\ [][Next]_vars

SpecRepeated == InitRepeated /\ [][Next]_vars

TypeOK ==
    /\ completers \in CompleterLists
    /\ index \in Indexes
    /\ pc \in {"idle", "loop", "returned"}
    /\ i \in 1..(Len(completers) + 1)
    /\ parseCalls \in 0..1

-----------------------------------------------------------------------------
(* What the claims speak of.                                               *)

\* the calls of ModelIndexCompleter.complete made for the current request
ModelCalls == { k \in 1..Len(calls) : calls[k].kind = "ModelIndexCompleter" }

\* f is a literal, case-sensitive prefix of name
IsPrefixOf(f, name) ==
    /\ Len(f) <= Len(name)
    /\ \A n \in 1..Len(f) : name[n] = f[n]

\* f begins with the long-option marker
HasMarker(f) == Len(f) >= 2 /\ f[1] = "-" /\ f[2] = "-"

\* f without its two leading characters
Bare(f) == [n \in 1..(Len(f) - 2) |-> f[n + 2]]

\* the names of a list that f is a prefix of, in the order of the list
Filtered(names, f) ==
    LET M == { k \in 1..Len(names) : IsPrefixOf(f, names[k]) }
        Kth(j) == CHOOSE k \in M : Cardinality({ m \in M : m <= k }) = j
    IN [j \in 1..Cardinality(M) |-> names[Kth(j)]]

WithMarker(names) == [j \in 1..Len(names) |-> <<"-", "-">> \o names[j]]

Texts(items) == [j \in 1..Len(items) |-> items[j].result]

Answerable(p) == p.unparsed_items = <<>> /\ ~p.last_fragment.isNone

InGlobalScope(p) == p.lineage = <<>> /\ p.current_command = aws

LocalOptions(p) ==
    WithMarker(Filtered(arg_names(index, p.lineage, p.current_command),
                        Bare(p.last_fragment.str)))

GlobalOptions(p) ==
    WithMarker(Filtered(arg_names(index, <<>>, aws), Bare(p.last_fragment.str)))

-----------------------------------------------------------------------------
\* C1: autocomplete parses the line once and consults the completers in list
\* order; once a completer answers (even with the empty list) that answer is
\* returned unchanged, every completer consulted before it abstained, and no
\* completer after it is consulted.
Thm_C1_FirstAnswerWins ==
    /\ pc # "idle" => parseCalls = 1
    /\ Len(calls) <= Len(completers)
    /\ \A k \in 1..Len(calls) :
          /\ calls[k].who = k
          /\ calls[k].kind = completers[k]
          /\ k < Len(calls) => calls[k].ret.isNone
    /\ pc = "loop" => \A k \in 1..Len(calls) : calls[k].ret.isNone
    /\ pc = "returned" =>
          \/ /\ calls # <<>>
             /\ ~calls[Len(calls)].ret.isNone
             /\ ret = calls[Len(calls)].ret
          \/ /\ Len(calls) = Len(completers)
             /\ \A k \in 1..Len(calls) : calls[k].ret.isNone

\* an empty answer of the first completer was returned and the second
\* completer, which would have answered, was not consulted
Wit_C1_EmptyAnswerSuppresses ==
    /\ pc = "returned"
    /\ completers = <<"EmptyAnswerer", "FixedAnswerer">>
    /\ Len(calls) = 1
    /\ ret = List(<<>>)

\* C2: when every completer of the list abstained (the empty list included),
\* autocomplete returns the empty list, never None; so it does with the
\* ModelIndexCompleter alone and a line with unparsed items.
Thm_C2_AllAbstainGivesEmptyList ==
    pc = "returned" =>
        /\ ~ret.isNone
        /\ (\A k \in 1..Len(calls) : calls[k].ret.isNone) =>
              /\ Len(calls) = Len(completers)
              /\ ret = List(<<>>)
        /\ (completers = <<"ModelIndexCompleter">> /\ parsed.unparsed_items # <<>>) =>
              ret = List(<<>>)

Wit_C2_ModelAloneUnparsed ==
    /\ pc = "returned"
    /\ completers = <<"ModelIndexCompleter">>
    /\ parsed.unparsed_items # <<>>
    /\ ~parsed.last_fragment.isNone
    /\ Len(calls) = 1
    /\ ret = List(<<>>)

\* C3: ModelIndexCompleter.complete returns None whenever unparsed_items is
\* non-empty or last_fragment is None, whatever the other fields are.
Thm_C3_AbstainConditions ==
    \A k \in ModelCalls :
        (calls[k].arg.unparsed_items # <<>> \/ calls[k].arg.last_fragment.isNone)
            => calls[k].ret = None

\* it abstained on a fragment with the option marker because of unparsed items
Wit_C3_AbstainsDespiteMarker ==
    \E k \in ModelCalls :
        /\ calls[k].arg.unparsed_items # <<>>
        /\ calls[k].arg.last_fragment = Str(<<"-", "-", "r", "e", "g">>)
        /\ calls[k].ret = None

\* C4: for an answerable line whose fragment lacks the marker, the texts of
\* the results are exactly the names of command_names(lineage +
\* [current_command]) that the fragment is a prefix of, in index order.
Thm_C4_CommandNames ==
    \A k \in ModelCalls :
        LET p == calls[k].arg
        IN (Answerable(p) /\ ~HasMarker(p.last_fragment.str)) =>
              /\ ~calls[k].ret.isNone
              /\ Texts(calls[k].ret.items) =
                    Filtered(command_names(index, p.lineage \o <<p.current_command>>),
                             p.last_fragment.str)

\* scenario A: s3 among s3, s3api, sts gives s3, s3api
Wit_C4_ScenarioA ==
    \E k \in ModelCalls :
        /\ calls[k].arg.lineage = <<>>
        /\ calls[k].arg.current_command = aws
        /\ calls[k].arg.last_fragment = Str(s3)
        /\ command_names(index, <<aws>>) = <<s3, s3api, sts>>
        /\ Texts(calls[k].ret.items) = <<s3, s3api>>

\* C5: in the global scope (lineage [], command aws) an option fragment gives
\* exactly the matching names of arg_names([], 'aws'), each once, with the
\* marker, in index order: nothing is injected.
Thm_C5_GlobalScopeNoInjection ==
    \A k \in ModelCalls :
        LET p == calls[k].arg
        IN (Answerable(p) /\ HasMarker(p.last_fragment.str) /\ InGlobalScope(p)) =>
              /\ ~calls[k].ret.isNone
              /\ Texts(calls[k].ret.items) = LocalOptions(p)

\* scenario C: --out in the global scope gives --output once
Wit_C5_ScenarioC ==
    \E k \in ModelCalls :
        /\ InGlobalScope(calls[k].arg)
        /\ calls[k].arg.last_fragment = Str(<<"-", "-", "o", "u", "t">>)
        /\ Texts(calls[k].ret.items) = <<DashDash(output)>>

\* C6: outside the global scope an option fragment gives the matching local
\* options followed by the matching options of arg_names([], 'aws'), with no
\* de-duplication.
Thm_C6_GlobalInjection ==
    \A k \in ModelCalls :
        LET p == calls[k].arg
        IN (Answerable(p) /\ HasMarker(p.last_fragment.str) /\ ~InGlobalScope(p)) =>
              /\ ~calls[k].ret.isNone
              /\ Texts(calls[k].ret.items) = LocalOptions(p) \o GlobalOptions(p)

\* the command is aws but the lineage is not empty: region, which is local
\* and global, comes twice
Wit_C6_DuplicateOutsideGlobalScope ==
    \E k \in ModelCalls :
        /\ calls[k].arg.lineage = <<aws>>
        /\ calls[k].arg.current_command = aws
        /\ calls[k].arg.last_fragment = Str(<<"-", "-", "r">>)
        /\ Texts(calls[k].ret.items) = <<DashDash(region), DashDash(region)>>

\* C7: every result of ModelIndexCompleter.complete has starting_index equal
\* to minus the length of the whole last_fragment, marker included; it is
\* never positive.
Thm_C7_StartingIndex ==
    \A k \in ModelCalls :
        ~calls[k].ret.isNone =>
            \A j \in 1..Len(calls[k].ret.items) :
                /\ calls[k].ret.items[j].starting_index
                      + Len(calls[k].arg.last_fragment.str) = 0
                /\ calls[k].ret.items[j].starting_index <= 0

\* local and injected results of --re, all at -4
Wit_C7_InjectedOffsets ==
    \E k \in ModelCalls :
        /\ ~InGlobalScope(calls[k].arg)
        /\ calls[k].arg.last_fragment = Str(<<"-", "-", "r", "e">>)
        /\ Len(LocalOptions(calls[k].arg)) >= 1
        /\ Len(calls[k].ret.items) > Len(LocalOptions(calls[k].arg))
        /\ \A j \in 1..Len(calls[k].ret.items) :
              calls[k].ret.items[j].starting_index = 0 - 4

\* C8 as stated: in scenario B (lineage [ec2], command describe-instances,
\* fragment --reg, local names region, regex, root names region, output) the
\* result is --region, --regex, --region, --output.
Orig_C8_ScenarioB ==
    \A k \in ModelCalls :
        ( /\ calls[k].arg.lineage = <<ec2>>
          /\ calls[k].arg.current_command = describe_instances
          /\ calls[k].arg.last_fragment = Str(<<"-", "-", "r", "e", "g">>)
          /\ calls[k].arg.unparsed_items = <<>>
          /\ arg_names(index, <<ec2>>, describe_instances) = <<region, regex>>
          /\ arg_names(index, <<>>, aws) = <<region, output>> )
        => Texts(calls[k].ret.items) =
              <<DashDash(region), DashDash(regex), DashDash(region), DashDash(output)>>

\* C8 amended: in scenario B the scope is not global and the result is the
\* local --region, --regex followed by the global --region; output does not
\* start with reg and is left out.
Thm_C8_ScenarioB ==
    \A k \in ModelCalls :
        ( /\ calls[k].arg.lineage = <<ec2>>
          /\ calls[k].arg.current_command = describe_instances
          /\ calls[k].arg.last_fragment = Str(<<"-", "-", "r", "e", "g">>)
          /\ calls[k].arg.unparsed_items = <<>>
          /\ arg_names(index, <<ec2>>, describe_instances) = <<region, regex>>
          /\ arg_names(index, <<>>, aws) = <<region, output>> )
        => /\ ~InGlobalScope(calls[k].arg)
           /\ ~calls[k].ret.isNone
           /\ Texts(calls[k].ret.items) =
                 <<DashDash(region), DashDash(regex), DashDash(region)>>

Wit_C8_ScenarioB ==
    \E k \in ModelCalls :
        /\ calls[k].arg = [lineage |-> <<ec2>>,
                           current_command |-> describe_instances,
                           last_fragment |-> Str(<<"-", "-", "r", "e", "g">>),
                           unparsed_items |-> <<>>]
        /\ arg_names(index, <<ec2>>, describe_instances) = <<region, regex>>
        /\ arg_names(index, <<>>, aws) = <<region, output>>
        /\ Len(calls[k].ret.items) = 3

\* every later answer to the remembered line equals the first one
RepeatsAgree ==
    /\ (pc = "returned" /\ parsed = probe /\ probeAuto.seen) => ret = probeAuto.ret
    /\ \A k \in ModelCalls :
          (calls[k].arg = probe /\ probeModel.seen) => calls[k].ret = probeModel.ret

\* a step of a request leaves the parsed line, the index and the completers
\* as they were
CallsLeaveInputs ==
    /\ pc = "loop" => parsed' = parsed
    /\ index' = index
    /\ completers' = completers

\* C9: whatever was served before, serving a parsed line again gives the
\* result it gave the first time, from ModelIndexCompleter.complete and from
\* autocomplete; a call changes neither the parsed line (its lineage
\* included), nor the index, nor the completer list.
Thm_C9_Stateless == [](RepeatsAgree) /\ [][CallsLeaveInputs]_vars

\* the remembered line was served a second time, by the ModelIndexCompleter,
\* with a non-empty answer
Wit_C9_ServedAgain ==
    /\ pc = "returned"
    /\ parsed = probe
    /\ probeAuto.again
    /\ probeModel.again
    /\ ret.items # <<>>
    /\ ret = probeModel.ret

\* C10: an empty last_fragment is answered, by the command branch: every
\* command name of lineage + [current_command], each with starting_index 0.
\* Options are offered only for a fragment with the marker: -- alone gives
\* every option in scope, the empty fragment and - give no option.
Thm_C10_EmptyFragment ==
    \A k \in ModelCalls :
        LET p == calls[k].arg
            f == p.last_fragment.str
            children == command_names(index, p.lineage \o <<p.current_command>>)
            items == calls[k].ret.items
        IN Answerable(p) =>
              /\ ~calls[k].ret.isNone
              /\ f = <<>> =>
                    items = [j \in 1..Len(children) |->
                                [result |-> children[j], starting_index |-> 0]]
              /\ ~HasMarker(f) =>
                    \A j \in 1..Len(items) :
                        \E c \in 1..Len(children) : items[j].result = children[c]
              /\ f = <<"-">> => Texts(items) = Filtered(children, <<"-">>)
              /\ f = <<"-", "-">> =>
                    Texts(items) =
                        WithMarker(arg_names(index, p.lineage, p.current_command))
                        \o (IF InGlobalScope(p) THEN <<>>
                            ELSE WithMarker(arg_names(index, <<>>, aws)))

Wit_C10_EmptyFragmentAnswered ==
    \E k \in ModelCalls :
        /\ calls[k].arg.last_fragment = Str(<<>>)
        /\ calls[k].arg.unparsed_items = <<>>
        /\ Len(calls[k].ret.items) = 3
        /\ \A j \in 1..3 : calls[k].ret.items[j].starting_index = 0

====
